---- MODULE Spec2Model ----
(***************************************************************************)
(* A model of liza-cli: a command line tracker of BitBucket pull requests. *)
(* Each invocation of the program is one process: the modules are loaded,  *)
(* main() reads the configuration file, one command runs, and the process  *)
(* exits.  The BitBucket client is the environment: what its calls return  *)
(* is drawn from bounded sets.  Time is a clock that never goes back.      *)
(***************************************************************************)
EXTENDS Integers, Sequences, FiniteSets, TLC

\* ---------------------------------------------------------------- bounds
MaxClock == 1          \* the clock runs over 0..MaxClock
MaxFeed == 2           \* events in one activity feed, where one sync is studied
MaxRemote == 2         \* pull requests in one remote list, where one sync is studied

None == "None"
Absent == [absent |-> TRUE]        \* no file, no object
Truncated == [truncated |-> TRUE]  \* the file that open("w") has emptied
NoPullRequest == [repository |-> None, id |-> 0]
Users == {"u1", "u2"}
RepoOrder == <<"r1", "r2">>                 \* the repository names, sorted
RepoNames == {RepoOrder[i] : i \in DOMAIN RepoOrder}
Named == {"r1"}                             \* the repository a command line names
Titles == {"t1", "t2"}
PrIds == 1..MaxRemote                       \* the ids a command line may name
Times == 0..MaxClock

\* config.py: class ActivityType
ActivityType == {"approval", "comment", "update"}

\* liza.py: size = 10 in paginate_or_select_pull_requests
size == 10

VARIABLES
    clock,          \* datetime.now(timezone.utc)
    file,           \* the content of state.config_file, Absent when it does not exist
    pc,             \* where the process is: idle (no process), ready, reconcile, activity, prompt, done
    cmd,            \* the command the process runs
    result,         \* how the command ended: None, "ok", or the error
    defTime,        \* the time at which config.py was loaded by this process
    config,         \* state.config
    client,         \* state.client: None or the user_uuid it was built with
    rq,             \* the repositories still to visit by the running loop
    k,              \* pull requests of Head(rq) already visited by update_pull_requests
    repository,     \* loop variable: the repository visited last
    pull_request,   \* the pull request visited or acted on last (NoPullRequest: none)
    pull_requests,  \* the last answer of get_assigned_and_authored_pull_requests
    activities,     \* the last answer of get_pull_request_activity
    offset,         \* paginate_or_select_pull_requests: the page being shown
    output,         \* what the command printed (updates --count)
    calls           \* the requests the process has sent with httpx.get, in order,
                    \* each with the status of its response (0: no response)

vars == <<clock, file, pc, cmd, result, defTime, config, client, rq, k,
          repository, pull_request, pull_requests, activities, offset, output, calls>>

locals == <<rq, k, repository, pull_request, pull_requests, activities, offset, output>>

\* ------------------------------------------------------ sequences as dicts
Range(s) == {s[i] : i \in DOMAIN s}

Ids(prs) == {prs[i].id : i \in DOMAIN prs}

\* d.get(id): the value stored under id (the caller checks id is a key)
dict_get(prs, id) == prs[CHOOSE i \in DOMAIN prs : prs[i].id = id]

\* d[p.id] = p: a known key keeps its place, a new key goes last
dict_set(prs, p) ==
    IF p.id \in Ids(prs)
    THEN [i \in DOMAIN prs |-> IF prs[i].id = p.id THEN p ELSE prs[i]]
    ELSE Append(prs, p)

\* ------------------------------------------------------------ config.py
\* class Update, built from a raw activity (liza.py, update_pull_requests)
Update(d, t, a) == [date |-> d, activity_type |-> t, author |-> a]

\* PullRequest.parse_obj(raw): the fields the remote does not send take the
\* class defaults, which were evaluated when the class body ran (at)
PullRequest(raw, at) ==
    [id |-> raw.id, title |-> raw.title, author |-> raw.author,
     updates |-> <<>>, last_read |-> at, last_updated |-> at]

is_authored_by(pr, uuid) == uuid = pr.author

\* a mark_read that writes the other timestamp
mark_read_as_updated(pr, at) == [pr EXCEPT !.last_updated = at]

\* mark_read(self, at): the caller passes the default of `at` when it gives none
mark_read(pr, at) == [pr EXCEPT !.last_read = at]

\* a mark_updated that takes the time of the newest update, when there is one
mark_updated_by_update(pr, now) ==
    [pr EXCEPT !.last_updated = IF pr.updates = <<>> THEN now ELSE pr.updates[1].date]

\* a mark_updated that was left out
mark_updated_skipped(pr, now) == pr

mark_updated(pr, now) == [pr EXCEPT !.last_updated = now]

\* an unread_updates that takes equal timestamps as read
unread_updates_after(pr) ==
    IF pr.last_read >= pr.last_updated THEN <<>> ELSE pr.updates

unread_updates(pr) ==
    IF pr.last_read > pr.last_updated THEN <<>> ELSE pr.updates

has_unread_updates(pr) == Len(unread_updates(pr)) > 0

Repository(name) == [name |-> name, pull_requests |-> <<>>]

\* Config(repositories={})
DefaultConfig ==
    [token |-> None, username |-> None, user_uuid |-> None,
     repositories |-> [r \in {} |-> None]]

\* the repositories in the order of the dict, which is the order of the file
RepoSeq(c) == SelectSeq(RepoOrder, LAMBDA r : r \in DOMAIN c.repositories)

RECURSIVE Flatten(_, _)
Flatten(c, rs) ==
    IF rs = <<>> THEN <<>>
    ELSE LET r == c.repositories[Head(rs)]
         IN  [i \in DOMAIN r.pull_requests |->
                 [repository |-> r.name, id |-> r.pull_requests[i].id]]
             \o Flatten(c, Tail(rs))

\* Config.pull_requests_with_repository / Repository.pull_requests_with_repository
pull_requests_with_repository(c, rs) == Flatten(c, rs)

\* ------------------------------------------------------- the config file
\* json(sort_keys=True): the pull requests of a repository are written in
\* the order of their ids, and read back in that order
RECURSIVE SortById(_)
SortById(prs) ==
    IF prs = <<>> THEN <<>>
    ELSE LET lo == CHOOSE i \in DOMAIN prs : \A j \in DOMAIN prs : prs[i].id <= prs[j].id
         IN  <<prs[lo]>> \o SortById(SelectSeq(prs, LAMBDA p : p.id # prs[lo].id))

Serialized(c) ==
    [c EXCEPT !.repositories =
        [r \in DOMAIN c.repositories |->
            [c.repositories[r] EXCEPT !.pull_requests = SortById(@)]]]

\* write_config(): the file holds the serialized config
write_config(c) == Serialized(c)

\* write_config() when the process is stopped between open("w") and the end
\* of f.write (it is killed, or the write raises): the file is left emptied
write_config_stopped(c) == Truncated

\* ------------------------------------------------- what the remote sends
\* the lists of pull requests with ids in 1..n, each id once
ListsOf(n, titles, authors) ==
    {l \in UNION {[1..m -> [id : 1..n, title : titles, author : authors]] : m \in 0..n} :
        \A i, j \in DOMAIN l : i # j => l[i].id # l[j].id}

RemoteLists == ListsOf(MaxRemote, Titles, Users)

\* in the life of the program the remote lists at most one pull request
CliLists == ListsOf(1, {"t1"}, Users)

RawActivities == [type : ActivityType, date : Times, user : Users]

FeedsOf(n) == UNION {[1..m -> RawActivities] : m \in 0..n}

Feeds == FeedsOf(MaxFeed)

\* in the life of the program a feed holds at most one event
CliFeeds == FeedsOf(1)

\* BitBucket._get: a request, and the status_code of its response
Request(call, r, id, status) ==
    [call |-> call, repository |-> r, id |-> id, status |-> status]

\* the status codes of the responses that json.loads takes: a response that
\* is no success (500) holds no pull request and no event
StatusCodes == {200, 500}

\* the body b of a response with status code
Body(code, b) == code = 200 \/ b = <<>>

\* httpx.get raises (no response, 0), or the body of a response that is no
\* success is not what the caller goes through: the exception ends the process
Raised == {0, 500}

\* ---------------------------------------------------------------- liza.py
Init ==
    /\ clock = 0
    /\ file = Absent
    /\ pc = "idle"
    /\ cmd = None
    /\ result = None
    /\ defTime = 0
    /\ config = Absent
    /\ client = None
    /\ rq = <<>>
    /\ k = 0
    /\ repository = None
    /\ pull_request = NoPullRequest
    /\ pull_requests = <<>>
    /\ activities = <<>>
    /\ offset = 0
    /\ output = 0
    /\ calls = <<>>

\* time passes
Tick ==
    /\ clock < MaxClock
    /\ clock' = clock + 1
    /\ UNCHANGED <<file, pc, cmd, result, defTime, config, client, locals, calls>>

\* the program starts: config.py is loaded (its class defaults are evaluated),
\* then main() creates the file if it is missing, parses it and builds the client
main ==
    /\ pc = "idle"
    /\ defTime' = clock
    /\ \/ /\ file # Truncated
          /\ LET onDisk == IF file = Absent THEN write_config(DefaultConfig) ELSE file
             IN  /\ file' = onDisk
                 /\ config' = onDisk
                 /\ client' = IF onDisk.username # None /\ onDisk.token # None
                              THEN onDisk.user_uuid ELSE None
          /\ pc' = "ready" /\ result' = result
       \/ /\ file = Absent           \* create_default_config() is stopped
          /\ file' = write_config_stopped(DefaultConfig)
          /\ config' = DefaultConfig
          /\ pc' = "done" /\ result' = "Stopped"
          /\ client' = client
       \/ /\ file = Truncated        \* Config.parse_file raises
          /\ pc' = "done" /\ result' = "JSONDecodeError"
          /\ UNCHANGED <<file, config, client>>
    /\ UNCHANGED <<clock, cmd, locals, calls>>

\* the process ends: nothing of its memory is left
Exit ==
    /\ pc = "done"
    /\ pc' = "idle"
    /\ cmd' = None /\ result' = None /\ defTime' = 0
    /\ config' = Absent /\ client' = None
    /\ rq' = <<>> /\ k' = 0 /\ repository' = None /\ pull_request' = NoPullRequest
    /\ pull_requests' = <<>> /\ activities' = <<>> /\ offset' = 0 /\ output' = 0
    /\ calls' = <<>>
    /\ UNCHANGED <<clock, file>>

\* a command that ends at once with result res, the config c and the file f,
\* having sent the requests sent
Ends(name, res, c, f, sent) ==
    /\ pc' = "done" /\ cmd' = name /\ result' = res
    /\ config' = c /\ file' = f
    /\ calls' = calls \o sent
    /\ UNCHANGED <<clock, defTime, client, locals>>

\* a command that ends with write_config(), the config being c
Saves(name, c, sent) ==
    \/ Ends(name, "ok", c, write_config(c), sent)
    \/ Ends(name, "Stopped", c, write_config_stopped(c), sent)

\* credentials(username, token): get_user() answers a user, or None when the
\* status of the response is not 200
credentials ==
    /\ pc = "ready"
    /\ \E user \in Users \cup {None} :
          IF user = None
          THEN Ends("credentials", "Invalid login credentials", config, file,
                    <<Request("user", None, 0, 500)>>)
          ELSE LET c == [config EXCEPT !.user_uuid = user,
                                       !.token = "token", !.username = "name"]
               IN  Saves("credentials", c, <<Request("user", None, 0, 200)>>)

\* reset(): the file is deleted when the user confirms
reset ==
    /\ pc = "ready"
    /\ \E delete \in BOOLEAN :
          Ends("reset", "ok", config, IF delete THEN Absent ELSE file, <<>>)

RECURSIVE watch_loop(_, _, _)
watch_loop(r, remote, at) ==
    IF remote = <<>> THEN r
    ELSE watch_loop([r EXCEPT !.pull_requests = dict_set(@, PullRequest(Head(remote), at))],
                    Tail(remote), at)

\* a watch that asks for the repository before it looks at the credentials
watch_calling_first(lists) ==
    /\ pc = "ready"
    /\ \E name \in Named :
          IF client = None
          THEN Ends("watch", "NotAuthenticated", config, file,
                    <<Request("repository", name, 0, 500)>>)
          ELSE IF name \in DOMAIN config.repositories
          THEN Ends("watch", "ok", config, file, <<>>)
          ELSE \/ \E remote \in lists, code \in StatusCodes :
                     LET r == watch_loop(Repository(name), remote, defTime)
                         c == [config EXCEPT !.repositories =
                                  [n \in DOMAIN config.repositories \cup {name} |->
                                      IF n = name THEN r ELSE config.repositories[n]]]
                     IN  /\ Body(code, remote)
                         /\ Saves("watch", c,
                                  <<Request("repository", name, 0, 200),
                                    Request("pullrequests", name, 0, code)>>)
               \/ \E code \in Raised :
                     \/ Ends("watch", "TransportFailure", config, file,
                             <<Request("repository", name, 0, code)>>)
                     \/ Ends("watch", "TransportFailure", config, file,
                             <<Request("repository", name, 0, 200),
                               Request("pullrequests", name, 0, code)>>)

\* watch(repository_name), the remote lists being drawn from lists
watch(lists) ==
    /\ pc = "ready"
    /\ \E name \in Named :
          IF client = None
          THEN Ends("watch", "NotAuthenticated", config, file, <<>>)
          ELSE IF name \in DOMAIN config.repositories
          THEN Ends("watch", "ok", config, file, <<>>)
          ELSE \/ \E remote \in lists, code \in StatusCodes :
                     LET r == watch_loop(Repository(name), remote, defTime)
                         c == [config EXCEPT !.repositories =
                                  [n \in DOMAIN config.repositories \cup {name} |->
                                      IF n = name THEN r ELSE config.repositories[n]]]
                     IN  /\ Body(code, remote)
                         /\ Saves("watch", c,
                                  <<Request("repository", name, 0, 200),
                                    Request("pullrequests", name, 0, code)>>)
               \/ \E code \in Raised :
                     \/ Ends("watch", "TransportFailure", config, file,
                             <<Request("repository", name, 0, code)>>)
                     \/ Ends("watch", "TransportFailure", config, file,
                             <<Request("repository", name, 0, 200),
                               Request("pullrequests", name, 0, code)>>)

\* unwatch(repository_name)
unwatch ==
    /\ pc = "ready"
    /\ \E name \in Named :
          IF client = None
          THEN Ends("unwatch", "NotAuthenticated", config, file, <<>>)
          ELSE IF name \notin DOMAIN config.repositories
          THEN Ends("unwatch", "ok", config, file, <<>>)
          ELSE LET c == [config EXCEPT !.repositories =
                            [n \in DOMAIN config.repositories \ {name} |->
                                config.repositories[n]]]
               IN  Saves("unwatch", c, <<>>)

\* ------------------------------------------------------------ the update
\* a reconciliation that keeps the local pull requests the remote no longer lists
RECURSIVE reconcile_keeping(_, _, _)
reconcile_keeping(local, remote, at) ==
    IF remote = <<>> THEN local
    ELSE LET p == PullRequest(remote[Len(remote)], at)
             updated == reconcile_keeping(local, SubSeq(remote, 1, Len(remote) - 1), at)
         IN  IF p.id \in Ids(local)
             THEN dict_set(updated, dict_get(local, p.id))
             ELSE dict_set(updated, p)

\* a reconciliation that takes every pull request as the remote sends it
RECURSIVE reconcile_fresh(_, _, _)
reconcile_fresh(local, remote, at) ==
    IF remote = <<>> THEN <<>>
    ELSE dict_set(reconcile_fresh(local, SubSeq(remote, 1, Len(remote) - 1), at),
                  PullRequest(remote[Len(remote)], at))

\* a reconciliation that stamps the pull requests it keeps
RECURSIVE reconcile_stamping(_, _, _)
reconcile_stamping(local, remote, at) ==
    IF remote = <<>> THEN <<>>
    ELSE LET p == PullRequest(remote[Len(remote)], at)
             updated == reconcile_stamping(local, SubSeq(remote, 1, Len(remote) - 1), at)
         IN  IF p.id \in Ids(local)
             THEN dict_set(updated, mark_updated(dict_get(local, p.id), at))
             ELSE dict_set(updated, p)

\* update_watched_pulled_requests, the body of the loop over the remote list
RECURSIVE reconcile(_, _, _)
reconcile(local, remote, at) ==
    IF remote = <<>> THEN <<>>
    ELSE LET p == PullRequest(remote[Len(remote)], at)
             updated == reconcile(local, SubSeq(remote, 1, Len(remote) - 1), at)
         IN  IF p.id \in Ids(local)
             THEN dict_set(updated, dict_get(local, p.id))
             ELSE dict_set(updated, p)

\* a loop that also stops at an event dated last_read
too_old_or_equal(a, pr) == a.date <= pr.last_read

\* date_of_activity < pull_request.last_read: the loop breaks
too_old(a, pr) == a.date < pr.last_read

\* a test of the author that is the wrong way round
from_others(a, uuid) == a.user # uuid

\* "Ignore changes from ourselves"
from_ourselves(a, uuid) == a.user = uuid

\* a test of the pull request's author that is the wrong way round
author_approval(a, pr, uuid) ==
    is_authored_by(pr, uuid) /\ a.type = "approval"

\* "Ignore approvals if we are only a reviewer on the PR"
reviewer_approval(a, pr, uuid) ==
    ~is_authored_by(pr, uuid) /\ a.type = "approval"

\* update_pull_requests, the loop over the activities from the i-th on
RECURSIVE classify(_, _, _, _)
classify(acts, i, pr, uuid) ==
    IF i > Len(acts) THEN <<>>
    ELSE LET a == acts[i]
         IN  IF too_old(a, pr) THEN <<>>
             ELSE IF from_ourselves(a, uuid) THEN classify(acts, i + 1, pr, uuid)
             ELSE IF reviewer_approval(a, pr, uuid) THEN classify(acts, i + 1, pr, uuid)
             ELSE <<Update(a.date, a.type, a.user)>> \o classify(acts, i + 1, pr, uuid)

\* updates.extend: the new updates are added to the old ones
add_updates(pr, updates) == [pr EXCEPT !.updates = @ \o updates]

\* pull_request.updates = updates
set_updates(pr, updates) == [pr EXCEPT !.updates = updates]

\* the config with the pull requests of repository r replaced by prs
WithPullRequests(c, r, prs) ==
    [c EXCEPT !.repositories[r].pull_requests = prs]

\* update(), up to the first call of the client
update ==
    /\ pc = "ready"
    /\ cmd' = "update"
    /\ IF client = None
       THEN /\ pc' = "done" /\ result' = "NotAuthenticated" /\ rq' = rq
       ELSE /\ pc' = "reconcile" /\ result' = result /\ rq' = RepoSeq(config)
    /\ UNCHANGED <<clock, file, defTime, config, client, k, repository,
                   pull_request, pull_requests, activities, offset, output, calls>>

\* update_watched_pulled_requests(): one repository per step, the call of the
\* client and what follows it; the call may fail, and the process dies
update_watched_pulled_requests(lists) ==
    /\ pc = "reconcile"
    /\ \/ /\ rq # <<>>
          /\ \E remote \in lists, code \in StatusCodes :
                LET r == Head(rq)
                    local == config.repositories[r].pull_requests
                IN  /\ Body(code, remote)
                    /\ config' = WithPullRequests(config, r, reconcile(local, remote, defTime))
                    /\ repository' = r
                    /\ pull_requests' = remote
                    /\ rq' = Tail(rq)
                    /\ calls' = Append(calls, Request("pullrequests", r, 0, code))
          /\ UNCHANGED <<pc, result>>
       \/ /\ rq # <<>>
          /\ pc' = "done" /\ result' = "TransportFailure"
          /\ \E code \in Raised :
                calls' = Append(calls, Request("pullrequests", Head(rq), 0, code))
          /\ UNCHANGED <<config, repository, pull_requests, rq>>
       \/ /\ rq = <<>>
          /\ pc' = "activity" /\ rq' = RepoSeq(config)
          /\ UNCHANGED <<config, repository, pull_requests, result, calls>>
    /\ UNCHANGED <<clock, file, cmd, defTime, client, k, pull_request,
                   activities, offset, output>>

\* update_pull_requests(repository): one pull request per step, the call of
\* the client and what follows it
update_pull_requests(feeds) ==
    /\ pc = "activity"
    /\ rq # <<>>
    /\ LET r == Head(rq)
           prs == config.repositories[r].pull_requests
       IN  \/ /\ k < Len(prs)
              /\ \E feed \in feeds, code \in StatusCodes :
                    LET pr == prs[k + 1]
                        updates == classify(feed, 1, pr, config.user_uuid)
                        done == mark_updated(set_updates(pr, updates), clock)
                    IN  /\ Body(code, feed)
                        /\ config' = WithPullRequests(config, r, [prs EXCEPT ![k + 1] = done])
                        /\ repository' = r
                        /\ pull_request' = [repository |-> r, id |-> pr.id]
                        /\ activities' = feed
                        /\ k' = k + 1
                        /\ calls' = Append(calls, Request("activity", r, pr.id, code))
              /\ UNCHANGED <<pc, result, rq>>
           \/ /\ k < Len(prs)
              /\ pc' = "done" /\ result' = "TransportFailure"
              /\ \E code \in Raised :
                    calls' = Append(calls, Request("activity", r, prs[k + 1].id, code))
              /\ UNCHANGED <<config, repository, pull_request, activities, k, rq>>
           \/ /\ k = Len(prs)
              /\ rq' = Tail(rq) /\ k' = 0
              /\ UNCHANGED <<pc, result, config, repository, pull_request, activities,
                             calls>>
    /\ UNCHANGED <<clock, file, cmd, defTime, client, pull_requests, offset, output>>

\* update(), after the loops: "Update complete", write_config()
update_complete ==
    /\ pc = "activity"
    /\ rq = <<>>
    /\ pc' = "done"
    /\ \/ file' = write_config(config) /\ result' = "ok"
       \/ file' = write_config_stopped(config) /\ result' = "Stopped"
    /\ UNCHANGED <<clock, cmd, defTime, config, client, locals, calls>>

\* ----------------------------------------------------------- the listing
RECURSIVE Sum(_)
Sum(ns) == IF ns = <<>> THEN 0 ELSE Head(ns) + Sum(Tail(ns))

\* updates --count: the number of updates of the pull requests that have
\* unread updates, over all repositories or the one named
count_updates(c, name) ==
    LET rs == SelectSeq(RepoSeq(c), LAMBDA r : name = None \/ name = r)
        all == pull_requests_with_repository(c, rs)
        n(x) == LET pr == dict_get(c.repositories[x.repository].pull_requests, x.id)
                IN  IF has_unread_updates(pr) THEN Len(pr.updates) ELSE 0
    IN  Sum([i \in DOMAIN all |-> n(all[i])])

updates ==
    /\ pc = "ready"
    /\ \E name \in Named \cup {None} :
          /\ output' = count_updates(config, name)
          /\ repository' = name
    /\ pc' = "done" /\ cmd' = "updates" /\ result' = "ok"
    /\ UNCHANGED <<clock, file, defTime, config, client, rq, k, pull_request,
                   pull_requests, activities, offset, calls>>

\* --------------------------------------------------- read, unread, open
\* the closure each command hands to paginate_or_select_pull_requests,
\* without its write_config(); at is the default of mark_read's parameter
\* an unread that leaves out the margin of one minute
action_without_margin(name, pr, at) ==
    IF name = "unread"
    THEN mark_read(pr, pr.last_updated)
    ELSE mark_read(pr, at)

action(name, pr, at) ==
    IF name = "unread"
    THEN mark_read(pr, pr.last_updated - 1)
    ELSE mark_read(pr, at)

\* a closure that marks the pull request and forgets to write the file
Acted_without_save(name, r, id) ==
    LET prs == config.repositories[r].pull_requests
        c == WithPullRequests(config, r,
                 [i \in DOMAIN prs |->
                     IF prs[i].id = id THEN action(name, prs[i], defTime) ELSE prs[i]])
    IN  /\ config' = c
        /\ pull_request' = [repository |-> r, id |-> id]
        /\ pc' = "done"
        /\ file' = file /\ result' = "ok"

\* action(pr) on the pull request id of repository r, then write_config()
Acted(name, r, id) ==
    LET prs == config.repositories[r].pull_requests
        c == WithPullRequests(config, r,
                 [i \in DOMAIN prs |->
                     IF prs[i].id = id THEN action(name, prs[i], defTime) ELSE prs[i]])
    IN  /\ config' = c
        /\ pull_request' = [repository |-> r, id |-> id]
        /\ pc' = "done"
        /\ \/ file' = write_config(c) /\ result' = "ok"
           \/ file' = write_config_stopped(c) /\ result' = "Stopped"

\* the command dies with an error: nothing is changed, nothing is written
Dies(res) ==
    /\ pc' = "done" /\ result' = res
    /\ UNCHANGED <<config, file, pull_request>>

\* the pull requests the prompt lists: those of the repository named, or all
Listed(name) ==
    pull_requests_with_repository(config,
        SelectSeq(RepoSeq(config), LAMBDA r : name = None \/ name = r))

\* pages = [prs[i : i + size] for i in range(0, len(prs), size)]
Pages(prs) ==
    [j \in 1..((Len(prs) + size - 1) \div size) |->
        SubSeq(prs, (j - 1) * size + 1,
               IF j * size < Len(prs) THEN j * size ELSE Len(prs))]

\* paginate_or_select_pull_requests(repository, id, action), up to the prompt
paginate_or_select_pull_requests(name) ==
    /\ pc = "ready"
    /\ cmd' = name
    /\ \E r \in Named \cup {None}, id \in PrIds \cup {0} :
          /\ repository' = r
          /\ IF id # 0 /\ r = None
             THEN Dies("UnknownRepository")
             ELSE IF r # None /\ r \notin DOMAIN config.repositories
             THEN Dies("UnknownRepository")
             ELSE IF id # 0
             THEN IF id \notin Ids(config.repositories[r].pull_requests)
                  THEN Dies("UnknownPullRequest")
                  ELSE Acted(name, r, id)
             ELSE IF Pages(Listed(r)) = <<>>
             THEN Dies("ok")
             ELSE /\ pc' = "prompt" /\ result' = result
                  /\ UNCHANGED <<config, file, pull_request>>
    /\ UNCHANGED <<clock, defTime, client, rq, k, pull_requests, activities,
                   offset, output, calls>>

read == paginate_or_select_pull_requests("read")

unread == paginate_or_select_pull_requests("unread")

open_pr == paginate_or_select_pull_requests("open")

\* the answers to "Choose a pull request": n, something that is no number, a number
Choices == {<<"n", 0>>, <<"x", 0>>} \cup {<<"int", i>> : i \in -1..size}

\* one turn of the loop over the pages: the page is shown, the user answers
prompt ==
    /\ pc = "prompt"
    /\ LET pages == Pages(Listed(repository))
           page == pages[offset + 1]
       IN  \E answer \in Choices :
              LET choice == answer[2]     \* int(choice)
              IN
              IF answer[1] = "n"
              THEN IF offset + 1 < Len(pages)
                   THEN /\ offset' = offset + 1
                        /\ UNCHANGED <<pc, result, config, file, pull_request>>
                   ELSE /\ offset' = offset
                        /\ Dies("ok")
              ELSE /\ offset' = offset
                   /\ IF answer[1] = "x"
                      THEN Dies("Invalid selection")
                      ELSE IF choice >= size \/ choice < 0
                      THEN Dies("invalid selection")
                      ELSE IF choice + 1 > Len(page)
                      THEN Dies("IndexError")
                      ELSE Acted(cmd, page[choice + 1].repository, page[choice + 1].id)
    /\ UNCHANGED <<clock, cmd, defTime, client, rq, k, repository, pull_requests,
                   activities, output, calls>>

\* the commands that call the client, in the life of the program
Watching == watch(CliLists)

Reconciling == update_watched_pulled_requests(CliLists)

Classifying == update_pull_requests(CliFeeds)

Next ==
    \/ Tick
    \/ main
    \/ Exit
    \/ credentials
    \/ reset
    \/ Watching
    \/ unwatch
    \/ update
    \/ Reconciling
    \/ Classifying
    \/ update_complete
    \/ updates
    \/ read
    \/ unread
    \/ open_pr
    \/ prompt

Spec == Init /\ [][Next]_vars

\* ------------------------------------------------- one sync, any answers
\* The two loops of update() are also studied alone, from every state a
\* process can be in when it enters the loop, with every answer of the
\* client within MaxRemote and MaxFeed.

\* what an earlier sync may have left in a pull request
OldUpdates == {<<>>, <<Update(0, "comment", "u2")>>}

\* the pull requests a config may hold: synced at time 0, and since then
\* marked as unread, or as read at any time
KnownPullRequests(ids, titles) ==
    [id : ids, title : titles, author : Users, updates : OldUpdates,
     last_read : (-1)..MaxClock, last_updated : {0}]

\* the pull requests a config may hold: watched at time 0 and left alone, or
\* then synced, with one update, and marked as unread
LocalPullRequests(ids, titles) ==
    LET fresh == {PullRequest(raw, 0) : raw \in [id : ids, title : titles, author : {"u1"}]}
    IN  fresh \cup
        {mark_read(set_updates(pr, <<Update(0, "comment", "u2")>>), pr.last_updated - 1) :
            pr \in fresh}

\* a process of a configured user, its config holding repository r1 with prs
Running(user, prs) ==
    /\ config = [token |-> "token", username |-> "name", user_uuid |-> user,
                 repositories |-> [r \in {"r1"} |-> [name |-> r, pull_requests |-> prs]]]
    /\ file = config
    /\ client = user
    /\ cmd = "update" /\ result = None
    /\ clock \in Times /\ defTime = clock
    /\ \A i \in DOMAIN prs : prs[i].last_read <= defTime /\ prs[i].last_updated <= defTime
    /\ rq = <<"r1">> /\ k = 0
    /\ pull_request = NoPullRequest /\ activities = <<>> /\ offset = 0 /\ output = 0

\* update() is about to reconcile r1, which holds pull requests in id order
InitReconcile ==
    /\ pc = "reconcile"
    /\ \E user \in Users :
       \E ids \in SUBSET (1..MaxRemote) :
       \E prs \in [1..Cardinality(ids) -> LocalPullRequests(ids, {"t1"})] :
          /\ \A i, j \in DOMAIN prs : i < j => prs[i].id < prs[j].id
          /\ Running(user, prs)
    /\ repository = None /\ pull_requests = <<>>
    /\ calls = <<>>

ReconcilingAny == update_watched_pulled_requests(RemoteLists)

NextReconcile == Tick \/ ReconcilingAny

SpecReconcile == InitReconcile /\ [][NextReconcile]_vars

\* update() has reconciled r1, which holds one pull request, and is about to
\* fetch its activity
InitClassify ==
    /\ pc = "activity"
    /\ \E user \in Users :
       \E pr \in KnownPullRequests({1}, {"t1"}) :
          /\ Running(user, <<pr>>)
          /\ pull_requests = <<[id |-> pr.id, title |-> pr.title, author |-> pr.author]>>
    /\ repository = "r1"
    /\ calls = <<Request("pullrequests", "r1", 0, 200)>>

ClassifyingAny == update_pull_requests(Feeds)

NextClassify == Tick \/ ClassifyingAny \/ update_complete

SpecClassify == InitClassify /\ [][NextClassify]_vars

\* ------------------------------------------- one sync, two repositories
\* update() is about to reconcile r1 and r2, each holding at most one pull
\* request; the answers of the client are those of the life of the program
InitOrder ==
    /\ pc = "reconcile"
    /\ \E user \in Users :
       \E held \in [RepoNames -> {<<>>} \cup {<<pr>> : pr \in LocalPullRequests({1}, {"t1"})}] :
          /\ config = [token |-> "token", username |-> "name", user_uuid |-> user,
                       repositories |->
                           [r \in RepoNames |-> [name |-> r, pull_requests |-> held[r]]]]
          /\ client = user
    /\ file = config
    /\ cmd = "update" /\ result = None
    /\ clock \in Times /\ defTime = clock
    /\ rq = RepoSeq(config) /\ k = 0
    /\ repository = None /\ pull_request = NoPullRequest
    /\ pull_requests = <<>> /\ activities = <<>>
    /\ offset = 0 /\ output = 0
    /\ calls = <<>>

NextOrder == Tick \/ Reconciling \/ Classifying \/ update_complete

SpecOrder == InitOrder /\ [][NextOrder]_vars

\* ------------------------------------------------------------ properties
\* the pull request x names, in the config c
Get(c, x) == dict_get(c.repositories[x.repository].pull_requests, x.id)

\* every pull request of the config c, by repository and id
All(c) ==
    IF c = Absent \/ c = Truncated THEN {}
    ELSE UNION {{[repository |-> r, id |-> id] :
                    id \in Ids(c.repositories[r].pull_requests)} :
                r \in DOMAIN c.repositories}

\* update() has run to its end
Synced == pc = "done" /\ cmd = "update" /\ result = "ok"

\* update_watched_pulled_requests has just reconciled the repository r
Reconciled(r) == pc \in {"reconcile", "activity"} /\ cmd = "update" /\ repository = r

\* the update_pull_requests loop has just handled the pull request x
Visited(x) == cmd = "update" /\ pull_request = x /\ x # NoPullRequest

\* the first place of the feed whose event is dated before at, or one past its end
FirstOlder(feed, at) ==
    IF \E i \in DOMAIN feed : feed[i].date < at
    THEN CHOOSE i \in DOMAIN feed :
            feed[i].date < at /\ \A j \in 1..(i - 1) : feed[j].date >= at
    ELSE Len(feed) + 1

\* the events of the feed that count for the user on a pull request of author
Counts(a, user, author) ==
    a.user # user /\ ~(a.type = "approval" /\ author # user)

AsUpdates(feed) ==
    [i \in DOMAIN feed |-> [date |-> feed[i].date, activity_type |-> feed[i].type,
                            author |-> feed[i].user]]

\* C1: the Updates stored by a sync are, in feed order, the events before the
\* first event dated strictly before last_read that are neither by the
\* current user nor approvals on a pull request of somebody else; nothing
\* after that first event is stored, and a date equal to last_read does not stop
C1_StoredUpdates ==
    Visited(pull_request) =>
        LET pr == Get(config, pull_request)
            stop == FirstOlder(activities, pr.last_read)
            kept == SelectSeq(SubSeq(activities, 1, stop - 1),
                              LAMBDA a : Counts(a, config.user_uuid, pr.author))
        IN  pr.updates = AsUpdates(kept)

\* an event dated last_read is stored, the older one after it stops the loop
C1_Witness ==
    /\ Visited(pull_request)
    /\ Len(activities) = 2
    /\ LET pr == Get(config, pull_request)
       IN  /\ activities[1].date = pr.last_read
           /\ activities[2].date < pr.last_read
           /\ Len(pr.updates) = 1

\* an unordered feed: the newer event behind the older one is not stored
C1_WitnessUnordered ==
    /\ Visited(pull_request)
    /\ Len(activities) = 2
    /\ LET pr == Get(config, pull_request)
       IN  /\ activities[1].date < pr.last_read
           /\ activities[2].date >= pr.last_read
           /\ Counts(activities[2], config.user_uuid, pr.author)
           /\ pr.updates = <<>>

\* C2: after any sync, no pull request holds an Update whose author is the
\* configured current user
C2_NoOwnUpdates ==
    Synced =>
        \A x \in All(config) :
            \A u \in Range(Get(config, x).updates) : u.author # config.user_uuid

\* a sync has ended whose last feed held an event of the current user
C2_Witness ==
    /\ Synced
    /\ Visited(pull_request)
    /\ \E a \in Range(activities) :
          a.user = config.user_uuid /\ a.date >= Get(config, pull_request).last_read

\* C3: after any sync, a pull request whose author is not the current user
\* holds no Update of kind approval
C3_NoReviewerApprovals ==
    Synced =>
        \A x \in All(config) :
            Get(config, x).author # config.user_uuid =>
                \A u \in Range(Get(config, x).updates) : u.activity_type # "approval"

\* a sync has ended whose last feed held somebody else's approval of a pull
\* request the current user did not write, while a pull request the current
\* user wrote would keep it
C3_Witness ==
    /\ Synced
    /\ Visited(pull_request)
    /\ Get(config, pull_request).author # config.user_uuid
    /\ \E a \in Range(activities) :
          /\ a.type = "approval" /\ a.user # config.user_uuid
          /\ a.date >= Get(config, pull_request).last_read

\* the pull requests of repository r before this process changed them
Before(r) == file.repositories[r].pull_requests

After(r) == config.repositories[r].pull_requests

\* C4: after a repository is reconciled, the ids of its pull requests are
\* exactly the ids of the remote list
C4_KeysAreRemote ==
    \A r \in RepoNames :
        Reconciled(r) => Ids(After(r)) = Ids(pull_requests)

\* a local pull request was dropped and a remote one added
C4_Witness ==
    /\ Reconciled("r1")
    /\ Ids(Before("r1")) = {1}
    /\ Ids(After("r1")) = {2}

\* C5: a pull request known locally and listed by the remote is kept as it
\* was: last_read, last_updated, updates, title and author
C5_KnownKept ==
    [][\A r \in RepoNames :
          (pc = "reconcile" /\ rq # <<>> /\ Head(rq) = r /\ rq' = Tail(rq)) =>
              \A id \in Ids(config.repositories[r].pull_requests) \cap Ids(pull_requests') :
                  dict_get(config'.repositories[r].pull_requests, id)
                      = dict_get(config.repositories[r].pull_requests, id)]_vars

\* a kept pull request whose remote entry has another title and another author
C5_Witness ==
    /\ Reconciled("r1")
    /\ \E i \in DOMAIN pull_requests :
          LET raw == pull_requests[i]
          IN  /\ raw.id \in Ids(Before("r1"))
              /\ dict_get(After("r1"), raw.id).title # raw.title
              /\ dict_get(After("r1"), raw.id).author # raw.author
              /\ dict_get(After("r1"), raw.id).updates # <<>>

\* C6: a pull request first seen by a reconciliation has no updates, and
\* last_read and last_updated equal to the time of its construction
C6_FreshDefaults ==
    [][\A r \in RepoNames :
          (pc = "reconcile" /\ rq # <<>> /\ Head(rq) = r /\ rq' = Tail(rq)) =>
              \A id \in Ids(pull_requests') \ Ids(config.repositories[r].pull_requests) :
                  LET p == dict_get(config'.repositories[r].pull_requests, id)
                  IN  p.updates = <<>> /\ p.last_read = clock /\ p.last_updated = clock]_vars

Visit == pc = "activity" /\ k' = k + 1

\* C8: in a sync, update_pull_requests visits every pull request of every
\* repository once, in order; the visit replaces the updates and then sets
\* last_updated to the time of the visit, whatever the updates are dated, and
\* touches no other pull request; no other step of the program assigns the
\* last_updated of a pull request
C8_UpdatedOncePerSync ==
    [][/\ Visit =>
            LET r == Head(rq)
                x == [repository |-> r, id |-> config.repositories[r].pull_requests[k + 1].id]
            IN  /\ pull_request' = x
                /\ Get(config', x).last_updated = clock
                /\ Range(Get(config', x).updates) \subseteq Range(AsUpdates(activities'))
                /\ All(config') = All(config)
                /\ \A y \in All(config) \ {x} : Get(config', y) = Get(config, y)
       /\ (pc = "reconcile" /\ pc' = "activity") => (rq' = RepoSeq(config) /\ k' = 0)
       /\ (pc = "activity" /\ rq' # rq) =>
            (rq' = Tail(rq) /\ k' = 0 /\ k = Len(config.repositories[Head(rq)].pull_requests))
       /\ (pc = "activity" /\ pc' = "done" /\ result' = "ok") => rq = <<>>
       /\ (~Visit /\ config # Absent /\ config' # Absent) =>
            \A y \in All(config) \cap All(config') :
                Get(config', y).last_updated = Get(config, y).last_updated]_vars

\* the loop of a sync has ended: a pull request kept by the reconciliation
\* holds an update dated otherwise than its last_updated
C8_Witness ==
    /\ pc = "activity" /\ rq = <<>>
    /\ \E x \in All(config) \cap All(file) :
          /\ Get(config, x).updates # <<>>
          /\ \A u \in Range(Get(config, x).updates) :
                u.date # Get(config, x).last_updated

\* C9: has_unread_updates is true exactly when last_read <= last_updated and
\* there are updates; unread_updates is then the whole list, and else empty
C9_UnreadPolicy ==
    \A x \in All(config) :
        LET pr == Get(config, x)
            expected == pr.last_read <= pr.last_updated /\ Len(pr.updates) > 0
        IN  /\ has_unread_updates(pr) <=> expected
            /\ unread_updates(pr) = IF expected THEN pr.updates ELSE <<>>

\* updates --count has counted the updates of a pull request read and
\* updated at the same time
C9_Witness ==
    /\ pc = "done" /\ cmd = "updates" /\ output > 0
    /\ \E x \in All(config) :
          /\ Get(config, x).last_read = Get(config, x).last_updated
          /\ Get(config, x).updates # <<>>

\* what the user has: the config of the running process, or else the file
Cur == IF config = Absent THEN file ELSE config

\* the step is the read or the open command marking x as read
MarkedRead(x) ==
    /\ pc \in {"ready", "prompt"} /\ pc' = "done"
    /\ cmd' \in {"read", "open"} /\ result' \in {"ok", "Stopped"}
    /\ pull_request' = x /\ x # NoPullRequest

\* the step is the unread command marking x as unread
MarkedUnread(x) ==
    /\ pc \in {"ready", "prompt"} /\ pc' = "done"
    /\ cmd' = "unread" /\ result' \in {"ok", "Stopped"}
    /\ pull_request' = x /\ x # NoPullRequest

\* C10 as stated: a pull request marked as read has no unread updates, and
\* has none until a sync visits it, whatever its updates and its last_updated
C10_ReadUntilSync ==
    [][\A x \in All(Cur) \cap All(Cur') :
          /\ MarkedRead(x) => ~has_unread_updates(Get(Cur', x))
          /\ (/\ ~has_unread_updates(Get(Cur, x))
              /\ Get(Cur, x).updates # <<>>
              /\ ~(Visit /\ pull_request' = x))
                => ~has_unread_updates(Get(Cur', x))]_vars

\* C10, amended: a pull request marked as read whose last_updated is earlier
\* than the last_read the command sets has no unread updates, and has none
\* until a sync visits it or the unread command marks it
C10_ReadUntilSyncOrUnread ==
    [][\A x \in All(Cur) \cap All(Cur') :
          /\ (MarkedRead(x) /\ Get(Cur, x).last_updated < defTime)
                => ~has_unread_updates(Get(Cur', x))
          /\ (/\ Get(Cur, x).last_updated < Get(Cur, x).last_read
              /\ ~(Visit /\ pull_request' = x)
              /\ ~MarkedUnread(x))
                => /\ ~has_unread_updates(Get(Cur', x))
                   /\ Get(Cur', x).last_updated < Get(Cur', x).last_read]_vars

\* the read command has marked a pull request that had unread updates
C10_Witness ==
    /\ pc = "done" /\ cmd = "read" /\ result = "ok" /\ pull_request # NoPullRequest
    /\ LET pr == Get(config, pull_request)
       IN  /\ pr.updates # <<>>
           /\ pr.last_updated < pr.last_read
           /\ ~has_unread_updates(pr)

\* C11 as stated: the unread command sets last_read to last_updated minus one
\* minute, leaves the updates and last_updated alone, and the pull request
\* then has unread updates
C11_UnreadIsUnread ==
    [][\A x \in All(Cur) \cap All(Cur') :
          MarkedUnread(x) =>
              LET old == Get(Cur, x)
                  new == Get(Cur', x)
              IN  /\ new.last_read = old.last_updated - 1
                  /\ new.updates = old.updates
                  /\ new.last_updated = old.last_updated
                  /\ has_unread_updates(new)]_vars

\* C11, amended: the unread command sets last_read to last_updated minus one
\* minute, touches nothing else of the pull request, and the pull request
\* then has unread updates exactly when it holds updates
C11_UnreadIsUnreadWithUpdates ==
    [][\A x \in All(Cur) \cap All(Cur') :
          MarkedUnread(x) =>
              LET old == Get(Cur, x)
                  new == Get(Cur', x)
              IN  /\ new = [old EXCEPT !.last_read = old.last_updated - 1]
                  /\ has_unread_updates(new) <=> old.updates # <<>>
                  /\ \A y \in All(Cur) \ {x} : Get(Cur', y) = Get(Cur, y)]_vars

\* the unread command has marked a pull request that holds updates, one
\* minute before its last update: it has unread updates
C11_Witness ==
    /\ pc = "done" /\ cmd = "unread" /\ result = "ok" /\ pull_request # NoPullRequest
    /\ LET pr == Get(config, pull_request)
       IN  /\ pr.updates # <<>>
           /\ pr.last_read = pr.last_updated - 1
           /\ has_unread_updates(pr)

\* C12: the read and the open command set the last_read of the pull request
\* they mark to the time at which they mark it
C12_ReadStampsNow ==
    [][\A x \in All(Cur) \cap All(Cur') :
          MarkedRead(x) => Get(Cur', x).last_read = clock]_vars

\* C13: once a request of a sync had a response that is no success, or none,
\* the sync is aborted with a transport failure and the file stays what it
\* was; a sync that goes on writes nothing before its end
C13_FailedFetchAborts ==
    [][/\ (cmd' = "update" /\ \E i \in DOMAIN calls' : calls'[i].status # 200) =>
            (pc' = "done" /\ result' = "TransportFailure" /\ file' = file)
       /\ (pc \in {"reconcile", "activity"} /\ pc' # "done") => file' = file]_vars

\* the errors of a command that lacks credentials or names what is not watched
Refusals == {"NotAuthenticated", "UnknownRepository", "UnknownPullRequest"}

\* C14: a command that ends with NotAuthenticated, UnknownRepository or
\* UnknownPullRequest ends in its first step, has sent no request, and leaves
\* the config in memory and the file as they were loaded
C14_RefusedBeforeAnyCall ==
    [][(pc # "done" /\ pc' = "done" /\ result' \in Refusals) =>
            /\ pc = "ready"
            /\ calls = <<>> /\ calls' = <<>>
            /\ config' = config /\ file' = file
            /\ config' = file']_vars

\* unread has refused an id that is not watched, in a repository that is
\* watched and holds a pull request
C14_Witness ==
    /\ pc = "done" /\ cmd = "unread" /\ result = "UnknownPullRequest"
    /\ calls = <<>>
    /\ All(config) # {} /\ config = file

\* update has refused to run without credentials
C14_WitnessNotAuthenticated ==
    /\ pc = "done" /\ cmd = "update" /\ result = "NotAuthenticated"
    /\ calls = <<>> /\ config = file

\* C15: reconciling a repository again against the same remote list, at any
\* time, in the same process or in a later one that has loaded the file,
\* gives the same ids and under each id the same pull request
C15_Idempotent ==
    \A r \in RepoNames :
        Reconciled(r) =>
            \A at \in Times :
                LET again == reconcile(After(r), pull_requests, at)
                    later == reconcile(SortById(After(r)), pull_requests, at)
                IN  /\ again = After(r)
                    /\ Ids(later) = Ids(After(r))
                    /\ \A id \in Ids(later) : dict_get(later, id) = dict_get(After(r), id)

\* the remote listed, out of the order of the ids, a pull request that is
\* new and one that was held with an update
C15_Witness ==
    /\ Reconciled("r1")
    /\ Len(pull_requests) = 2
    /\ pull_requests[1].id > pull_requests[2].id
    /\ \E id \in Ids(After("r1")) : id \notin Ids(Before("r1"))
    /\ \E id \in Ids(After("r1")) \cap Ids(Before("r1")) :
          dict_get(After("r1"), id).updates # <<>>

\* the commands that change the config
Mutating == {"credentials", "watch", "unwatch", "update", "read", "unread", "open"}

\* C16: when a command that changes the config has ended well, the file holds
\* the config in memory, and the next invocation loads what the file holds
C16_SavedIsInMemory ==
    [][/\ (pc' = "done" /\ result' = "ok" /\ cmd' \in Mutating) =>
            file' = Serialized(config')
       /\ (pc = "idle" /\ pc' = "ready" /\ file # Absent) =>
            (config' = file /\ file' = file)]_vars

\* read has marked a pull request that had unread updates, and the file
\* holds the new last_read
C16_Witness ==
    /\ pc = "done" /\ cmd = "read" /\ result = "ok" /\ pull_request # NoPullRequest
    /\ file = Serialized(config)
    /\ Get(config, pull_request).updates # <<>>
    /\ Get(file, pull_request).last_read > Get(file, pull_request).last_updated

\* C17: a save is atomic: a step that changes the file leaves in it the whole
\* document of the config in memory (or no file, on reset), and no
\* invocation fails to load the file
C17_AtomicSave ==
    [][/\ file' # file =>
            \/ file' = write_config(config')
            \/ cmd' = "reset" /\ file' = Absent
       /\ result' # "JSONDecodeError"]_vars

\* the request calls[j] asks for the relevant pull requests of a repository
ListFetch(j) == calls[j].call = "pullrequests"

\* the request calls[j] asks for the activity of the pull request id of r
ActivityFetch(j, r, id) ==
    calls[j].call = "activity" /\ calls[j].repository = r /\ calls[j].id = id

\* C18: a sync goes repository by repository: when it asks for the relevant
\* pull requests of a repository, it has asked for the activity of every pull
\* request retained by each repository it has fetched before
C18_RepositoryByRepository ==
    cmd = "update" =>
        \A i, j \in DOMAIN calls :
            (i < j /\ ListFetch(i) /\ ListFetch(j) /\ calls[i].status = 200) =>
                \A id \in Ids(After(calls[i].repository)) :
                    \E m \in (i + 1)..(j - 1) : ActivityFetch(m, calls[i].repository, id)

\* the place of the repository of the request calls[j] in the order of the dict
Place(j) == CHOOSE n \in DOMAIN RepoOrder : RepoOrder[n] = calls[j].repository

\* what update() does: it asks for the relevant pull requests of every
\* repository, in order, and only then for the activities, in order
C18_ListsThenActivities ==
    cmd = "update" =>
        \A i, j \in DOMAIN calls :
            i < j =>
                /\ ListFetch(j) => (ListFetch(i) /\ Place(i) < Place(j))
                /\ (~ListFetch(i) /\ ~ListFetch(j)) => Place(i) <= Place(j)

\* C19: a sync changes the last_read of no pull request, and when it has
\* ended well every pull request has last_read <= last_updated, and has
\* unread updates exactly when the sync stored an update for it
C19_UnreadAfterSync ==
    [][/\ cmd' = "update" =>
            \A x \in All(config) \cap All(config') :
                Get(config', x).last_read = Get(config, x).last_read
       /\ Synced' =>
            \A x \in All(config') :
                LET pr == Get(config', x)
                IN  /\ pr.last_read <= pr.last_updated
                    /\ has_unread_updates(pr) <=> pr.updates # <<>>]_vars

\* a sync has ended that visited a pull request at the very time of its
\* last_read, later than 0, and stored an update for it
C19_Witness ==
    /\ Synced
    /\ \E x \in All(config) :
          LET pr == Get(config, x)
          IN  /\ pr.last_read = pr.last_updated /\ pr.last_read > 0
              /\ pr.updates # <<>>
              /\ has_unread_updates(pr)

\* C20: an answer to the prompt that ends the command without marking a pull
\* request, and is neither n nor something that is no number, ends it with
\* the error of an invalid selection; nothing is changed, nothing is written
C20_OutOfRangeIsInvalid ==
    [][(pc = "prompt" /\ pc' = "done" /\ result' \notin {"ok", "Stopped", "Invalid selection"}) =>
            /\ result' = "invalid selection"
            /\ config' = config /\ file' = file /\ pull_request' = pull_request]_vars

====
